---------------------------- MODULE Spec2Model ----------------------------
(***************************************************************************)
(* Model of Session3/TA/scripts/generate_synthetic_data.py: the field      *)
(* synthesizers (generate_title, generate_article, generate_date), the     *)
(* size estimator (estimate_row_bytes) and the size-targeted writer loop   *)
(* of main().                                                              *)
(*                                                                         *)
(* A Python str is a sequence of one-character strings, so that            *)
(* formatting, quoting and parsing are computed character by character.    *)
(* Every string of the program is ASCII: a character is one byte.          *)
(***************************************************************************)
EXTENDS Integers, Sequences, FiniteSets, TLC

(***************************************************************************)
(* Bounds of the model.                                                    *)
(***************************************************************************)
\* Years around the default range 2020..2024 that generate_date is called with.
YearSlack == 1
\* Largest word_count generate_article is called with on its own.
MaxWordCount == 5
\* Number of entries of WORDS the stand-alone calls of generate_article draw from.
MaxWords == 2
\* random.randint(40, 100) of generate_article, scaled down: PARA_MIN..PARA_MAX.
PARA_MIN == 2
PARA_MAX == 3
\* random.randint(200, 1500) of main, scaled down: WC_MIN..WC_MAX.  As in the
\* program, the smallest article is longer than the longest paragraph.
WC_MIN == 4
WC_MAX == 5
\* Bytes in 0.1 GB, scaled down from 1024**3 / 10.
TenthGiB == 120
\* TARGET_SIZE_GB ranges over 0.1, 0.2, ..., MaxTargetTenths / 10.
MaxTargetTenths == 3
\* Number of outcomes of the random source one loop iteration chooses from.
MaxSeed == 6
\* Cap on the number of loop iterations (never reached by the program).
MaxRows == 6

(***************************************************************************)
(* Program constants.                                                      *)
(***************************************************************************)
DEFAULT_START_YEAR == 2020
DEFAULT_END_YEAR == 2024
URL_ID_MIN == 100000
URL_ID_MAX == 999999

DOMAINS ==
  << <<"r","e","u","t","e","r","s",".","c","o","m">>, <<"n","y","t","i","m","e","s",".","c","o","m">>, <<"b","b","c",".","c","o","m">>, <<"c","n","n",".","c","o","m">>,
     <<"w","a","s","h","i","n","g","t","o","n","p","o","s","t",".","c","o","m">>, <<"t","h","e","g","u","a","r","d","i","a","n",".","c","o","m">>, <<"a","p","n","e","w","s",".","c","o","m">>,
     <<"b","l","o","o","m","b","e","r","g",".","c","o","m">>, <<"w","s","j",".","c","o","m">>, <<"f","t",".","c","o","m">>, <<"p","o","l","i","t","i","c","o",".","c","o","m">>,
     <<"t","h","e","h","i","l","l",".","c","o","m">>, <<"a","x","i","o","s",".","c","o","m">>, <<"v","i","c","e",".","c","o","m">>, <<"v","o","x",".","c","o","m">>, <<"n","p","r",".","o","r","g">>,
     <<"l","a","t","i","m","e","s",".","c","o","m">>, <<"c","h","i","c","a","g","o","t","r","i","b","u","n","e",".","c","o","m">>, <<"u","s","a","t","o","d","a","y",".","c","o","m">>, <<"t","i","m","e",".","c","o","m">> >>

TOPICS ==
  << <<"e","c","o","n","o","m","y">>, <<"p","o","l","i","t","i","c","s">>, <<"t","e","c","h","n","o","l","o","g","y">>, <<"c","l","i","m","a","t","e">>, <<"h","e","a","l","t","h">>,
     <<"b","u","s","i","n","e","s","s">>, <<"s","c","i","e","n","c","e">>, <<"s","p","o","r","t","s">>, <<"e","n","t","e","r","t","a","i","n","m","e","n","t">>, <<"w","o","r","l","d">>,
     <<"f","i","n","a","n","c","e">>, <<"e","d","u","c","a","t","i","o","n">> >>

WORDS ==
  << <<"t","h","e">>, <<"a","n","d">>, <<"o","f">>, <<"t","o">>, <<"i","n">>, <<"a">>, <<"i","s">>, <<"t","h","a","t">>, <<"f","o","r">>,
     <<"i","t">>, <<"w","i","t","h">>, <<"a","s">>, <<"w","a","s">>, <<"o","n">>, <<"a","r","e">>, <<"b","e">>, <<"b","y">>, <<"a","t">>,
     <<"t","h","i","s">>, <<"h","a","v","e">>, <<"f","r","o","m">>, <<"g","o","v","e","r","n","m","e","n","t">>, <<"p","r","e","s","i","d","e","n","t">>, <<"m","a","r","k","e","t">>,
     <<"e","c","o","n","o","m","y">>, <<"p","o","l","i","c","y">>, <<"r","e","p","o","r","t">>, <<"o","f","f","i","c","i","a","l","s">>, <<"a","c","c","o","r","d","i","n","g">>,
     <<"s","t","a","t","e","m","e","n","t">>, <<"a","n","n","o","u","n","c","e","d">>, <<"e","l","e","c","t","i","o","n">>, <<"i","n","f","l","a","t","i","o","n">>, <<"c","l","i","m","a","t","e">>,
     <<"t","e","c","h","n","o","l","o","g","y">>, <<"i","n","v","e","s","t","m","e","n","t">>, <<"b","i","l","l","i","o","n">>, <<"m","i","l","l","i","o","n">>, <<"g","r","o","w","t","h">>,
     <<"s","a","i","d">>, <<"y","e","a","r">>, <<"n","e","w">>, <<"c","o","u","l","d">>, <<"w","o","u","l","d">>, <<"a","b","o","u","t">>, <<"m","o","r","e">>,
     <<"b","e","e","n">>, <<"h","a","s">> >>

action_words == << <<"r","i","s","e","s">>, <<"f","a","l","l","s">>, <<"s","h","i","f","t","s">>, <<"c","h","a","n","g","e","s">>, <<"g","r","o","w","s">> >>
subject_words == << <<"m","a","r","k","e","t">>, <<"g","o","v","e","r","n","m","e","n","t">>, <<"o","f","f","i","c","i","a","l","s">>, <<"i","n","d","u","s","t","r","y">>, <<"s","e","c","t","o","r">> >>
modifier_words == << <<"c","o","n","c","e","r","n","s">>, <<"u","n","c","e","r","t","a","i","n","t","y">>, <<"g","r","o","w","t","h">>, <<"d","e","c","l","i","n","e">>, <<"p","r","e","s","s","u","r","e">> >>

\* The title patterns: a string is literal text, a one-element tuple a slot.
patterns ==
  << << <<"topic">>, <<":"," ">>, <<"action">>, <<" ">>, <<"subject">> >>,
     << <<"B","r","e","a","k","i","n","g",":"," ">>, <<"subject">>, <<" ">>, <<"action">>, <<" ">>, <<"modifier">> >>,
     << <<"subject">>, <<" ","a","n","n","o","u","n","c","e","s"," ">>, <<"topic">>, <<" ">>, <<"modifier">> >>,
     << <<"R","e","p","o","r","t",":"," ">>, <<"topic">>, <<" ">>, <<"action">>, <<" ","a","m","i","d"," ">>, <<"subject">> >>,
     << <<"subject">>, <<" ","f","a","c","e","s"," ">>, <<"topic">>, <<" ","c","h","a","l","l","e","n","g","e","s">> >> >>

(***************************************************************************)
(* Python's str operations, on sequences of characters.                    *)
(***************************************************************************)
LowerLetters == <<"a","b","c","d","e","f","g","h","i","j","k","l","m","n","o","p","q","r","s","t","u","v","w","x","y","z">>
UpperLetters == <<"A","B","C","D","E","F","G","H","I","J","K","L","M","N","O","P","Q","R","S","T","U","V","W","X","Y","Z">>
DigitChars == <<"0","1","2","3","4","5","6","7","8","9">>

Min(a, b) == IF a < b THEN a ELSE b

IndexIn(c, s) == IF \E i \in 1..Len(s) : s[i] = c
                 THEN CHOOSE i \in 1..Len(s) : s[i] = c
                 ELSE 0

IsLetter(c) == IndexIn(c, LowerLetters) > 0 \/ IndexIn(c, UpperLetters) > 0

\* str.upper and str.lower of one character.
UpperChar(c) == IF IndexIn(c, LowerLetters) > 0
                THEN UpperLetters[IndexIn(c, LowerLetters)] ELSE c
LowerChar(c) == IF IndexIn(c, UpperLetters) > 0
                THEN LowerLetters[IndexIn(c, UpperLetters)] ELSE c

\* str.lower
lower(s) == [i \in 1..Len(s) |-> LowerChar(s[i])]

\* str.capitalize: the first character upper-cased, the rest lower-cased.
capitalizeNoop(s) == s
capitalize(s) == [i \in 1..Len(s) |-> IF i = 1 THEN UpperChar(s[i]) ELSE LowerChar(s[i])]

\* str.title: a letter that follows a non-letter is upper-cased, the others lower-cased.
title(s) == [i \in 1..Len(s) |->
               IF i = 1 \/ ~IsLetter(s[i - 1]) THEN UpperChar(s[i]) ELSE LowerChar(s[i])]

\* str.strip: leading and trailing whitespace removed.
IsSpace(c) == c \in {" ", "\t", "\n", "\r"}
RECURSIVE lstrip(_)
lstrip(s) == IF s # << >> /\ IsSpace(Head(s)) THEN lstrip(Tail(s)) ELSE s
RECURSIVE rstrip(_)
rstrip(s) == IF s # << >> /\ IsSpace(s[Len(s)])
             THEN rstrip(SubSeq(s, 1, Len(s) - 1)) ELSE s
strip(s) == rstrip(lstrip(s))

\* sep.join(parts)
RECURSIVE join(_, _)
join(sep, parts) ==
  IF parts = << >> THEN << >>
  ELSE IF Len(parts) = 1 THEN parts[1]
  ELSE parts[1] \o sep \o join(sep, Tail(parts))

\* Concatenation of a sequence of strings.
Concat(parts) == join(<< >>, parts)

\* str(n) for n >= 0, and n formatted in at least `width` digits (%02d, %Y).
RECURSIVE DecimalDigits(_)
DecimalDigits(n) == IF n < 10 THEN << DigitChars[n + 1] >>
                    ELSE Append(DecimalDigits(n \div 10), DigitChars[(n % 10) + 1])
RECURSIVE ZeroPad(_, _)
ZeroPad(s, width) == IF Len(s) >= width THEN s ELSE ZeroPad(<<"0">> \o s, width)

(***************************************************************************)
(* generate_date: datetime(y, 1, 1), datetime(y, 12, 31), their difference *)
(* in days, start + timedelta(days) and strftime("%Y-%m-%d").  Dates are   *)
(* proleptic Gregorian ordinals, as in the datetime module.                *)
(***************************************************************************)
DAYS_IN_MONTH == << 31, 28, 31, 30, 31, 30, 31, 31, 30, 31, 30, 31 >>

IsLeap(y) == y % 4 = 0 /\ (y % 100 # 0 \/ y % 400 = 0)

DaysInMonth(y, m) == IF m = 2 /\ IsLeap(y) THEN 29 ELSE DAYS_IN_MONTH[m]

DaysBeforeYear(y) ==
  LET p == y - 1 IN p * 365 + (p \div 4) - (p \div 100) + (p \div 400)

RECURSIVE DaysBeforeMonth(_, _)
DaysBeforeMonth(y, m) ==
  IF m = 1 THEN 0 ELSE DaysBeforeMonth(y, m - 1) + DaysInMonth(y, m - 1)

\* datetime(y, m, d).toordinal()
ToOrdinal(y, m, d) == DaysBeforeYear(y) + DaysBeforeMonth(y, m) + d

\* datetime.fromordinal(n), as <<year, month, day>>.
FromOrdinal(n) ==
  LET n0 == n - 1
      n400 == n0 \div 146097
      r400 == n0 % 146097
      n100 == r400 \div 36524
      r100 == r400 % 36524
      n4 == r100 \div 1461
      r4 == r100 % 1461
      n1 == r4 \div 365
      r1 == r4 % 365
      year == n400 * 400 + 1 + n100 * 100 + n4 * 4 + n1
  IN IF n1 = 4 \/ n100 = 4 THEN << year - 1, 12, 31 >>
     ELSE LET m == CHOOSE k \in 1..12 :
                     /\ DaysBeforeMonth(year, k) <= r1
                     /\ r1 < DaysBeforeMonth(year, k) + DaysInMonth(year, k)
          IN << year, m, r1 - DaysBeforeMonth(year, m) + 1 >>

\* (datetime(end_year, 12, 31) - datetime(start_year, 1, 1)).days
DeltaDaysInclusive(start_year, end_year) ==
  ToOrdinal(end_year, 12, 31) - ToOrdinal(start_year, 1, 1) + 1
DeltaDays(start_year, end_year) ==
  ToOrdinal(end_year, 12, 31) - ToOrdinal(start_year, 1, 1)

\* date.strftime("%Y-%m-%d")
strftime(ymd) ==
  ZeroPad(DecimalDigits(ymd[1]), 4) \o <<"-">> \o ZeroPad(DecimalDigits(ymd[2]), 2)
    \o <<"-">> \o ZeroPad(DecimalDigits(ymd[3]), 2)

\* generate_date(start_year, end_year), random_days the value random.randint
\* returned: a number in 0..DeltaDays(start_year, end_year).
generate_date(start_year, end_year, random_days) ==
  strftime(FromOrdinal(ToOrdinal(start_year, 1, 1) + random_days))

(***************************************************************************)
(* generate_title.  pattern, topic, action, subject and modifier are the   *)
(* indices random.choice draws.                                            *)
(***************************************************************************)
IsSlot(part) == Len(part) = 1 /\ part[1] \in {"topic", "action", "subject", "modifier"}

\* pattern.format(topic=..., action=..., subject=..., modifier=...)
format(pattern, args) ==
  Concat([i \in 1..Len(pattern) |->
            IF IsSlot(pattern[i]) THEN args[pattern[i][1]] ELSE pattern[i]])

generate_title(pattern, topic, action, subject, modifier) ==
  format(patterns[pattern],
         [topic |-> title(TOPICS[topic]), action |-> action_words[action],
          subject |-> subject_words[subject], modifier |-> modifier_words[modifier]])

(***************************************************************************)
(* generate_article.  lengths are the values random.randint(40, 100)       *)
(* returns, one per paragraph, and words the indices into WORDS that       *)
(* random.choices draws, in the order they are drawn.                      *)
(***************************************************************************)
\* para_length = min(random.randint(40, 100), words_remaining)
ParaLengthUncapped(drawn, words_remaining) == drawn
ParaLength(drawn, words_remaining) == Min(drawn, words_remaining)

\* One paragraph: " ".join(random.choices(WORDS, k=para_length)).capitalize() + "."
Paragraph(chosen) ==
  capitalize(join(<<" ">>, [i \in 1..Len(chosen) |-> WORDS[chosen[i]]])) \o <<".">>

\* The while loop: the list of paragraphs.
RECURSIVE Paragraphs(_, _, _)
Paragraphs(words_remaining, lengths, words) ==
  IF words_remaining > 0
  THEN LET para_length == ParaLength(Head(lengths), words_remaining)
       IN << Paragraph(SubSeq(words, 1, para_length)) >>
            \o Paragraphs(words_remaining - para_length, Tail(lengths),
                          SubSeq(words, para_length + 1, Len(words)))
  ELSE << >>

generate_article(word_count, lengths, words) ==
  join(<<"\n","\n">>, Paragraphs(word_count, lengths, words))

\* The most paragraphs an article of word_count words can have.
MaxParagraphs(word_count) == (word_count + PARA_MIN - 1) \div PARA_MIN

(***************************************************************************)
(* The row of one loop iteration, estimate_row_bytes and csv.DictWriter.   *)
(***************************************************************************)
fieldnamesSwapped == << <<"d","a","t","e">>, <<"t","i","t","l","e">>, <<"t","e","x","t">>, <<"d","o","m","a","i","n">>, <<"u","r","l">> >>
fieldnames == << <<"d","a","t","e">>, <<"t","i","t","l","e">>, <<"t","e","x","t">>, <<"u","r","l">>, <<"d","o","m","a","i","n">> >>

\* f"https://{domain}/article/{random.randint(100000, 999999)}"
MakeUrlFixedHost(domain, number) ==
  <<"h","t","t","p","s",":","/","/">> \o DOMAINS[1] \o <<"/","a","r","t","i","c","l","e","/">> \o DecimalDigits(number)
MakeUrl(domain, number) ==
  <<"h","t","t","p","s",":","/","/">> \o domain \o <<"/","a","r","t","i","c","l","e","/">> \o DecimalDigits(number)

\* The dict of lines 122-128, a function from the keys to the values.
MakeRow(date, title_, text, url, domain) ==
  ( <<"d","a","t","e">> :> date ) @@ ( <<"t","i","t","l","e">> :> title_ ) @@ ( <<"t","e","x","t">> :> text )
    @@ ( <<"u","r","l">> :> url ) @@ ( <<"d","o","m","a","i","n">> :> domain )

RECURSIVE SumLen(_, _)
SumLen(f, keys) ==
  IF keys = {} THEN 0
  ELSE LET k == CHOOSE x \in keys : TRUE IN Len(f[k]) + SumLen(f, keys \ {k})

\* sum(len(str(v)) for v in row.values()) + len(row)
estimate_row_bytes_with_keys(row_) ==
  SumLen(row_, DOMAIN row_) + SumLen([k \in DOMAIN row_ |-> k], DOMAIN row_)
    + Cardinality(DOMAIN row_)
estimate_row_bytes(row_) == SumLen(row_, DOMAIN row_) + Cardinality(DOMAIN row_)

\* csv.writer with the default dialect: QUOTE_MINIMAL, delimiter ",", quotechar
\* '"', doublequote, lineterminator "\r\n".
NeedsQuote(field) == \E i \in 1..Len(field) : field[i] \in {",", "\"", "\r", "\n"}

QuoteField(field) ==
  <<"\"">> \o Concat([i \in 1..Len(field) |->
                     IF field[i] = "\"" THEN <<"\"","\"">> ELSE << field[i] >>]) \o <<"\"">>

CsvLine(fields) ==
  join(<<",">>, [i \in 1..Len(fields) |->
                IF NeedsQuote(fields[i]) THEN QuoteField(fields[i]) ELSE fields[i]])
    \o <<"\r","\n">>

\* DictWriter.writeheader() and DictWriter.writerow(row): the line written.
HeaderLine == CsvLine(fieldnames)
RowLine(row_) == CsvLine([i \in 1..Len(fieldnames) |-> row_[fieldnames[i]]])

(***************************************************************************)
(* The random module.  One loop iteration of main consumes eleven draws;   *)
(* Raw(seed, k) is the k-th raw value of the source in an iteration whose  *)
(* source is in state `seed`, and randint and choice map a raw value into  *)
(* the range asked for.                                                    *)
(***************************************************************************)
Multipliers == << 2, 609, 1, 5, 1, 2, 3, 1, 1, 11, 179999 >>
Raw(seed, k) == seed * Multipliers[k]

\* random.randint(a, b): a value in a..b, both ends included.
randint(a, b, raw) == a + (raw % (b - a + 1))

\* random.choice(seq)
choice(seq, raw) == seq[(raw % Len(seq)) + 1]

\* The draws of one iteration, in the order of lines 116-126.
RandomDraws(seed) ==
  LET word_count == randint(WC_MIN, WC_MAX, Raw(seed, 8))
  IN [ domain     |-> choice(DOMAINS, Raw(seed, 1)),
       days       |-> randint(0, DeltaDays(DEFAULT_START_YEAR, DEFAULT_END_YEAR),
                              Raw(seed, 2)),
       pattern    |-> randint(1, Len(patterns), Raw(seed, 3)),
       topic      |-> randint(1, Len(TOPICS), Raw(seed, 4)),
       action     |-> randint(1, Len(action_words), Raw(seed, 5)),
       subject    |-> randint(1, Len(subject_words), Raw(seed, 6)),
       modifier   |-> randint(1, Len(modifier_words), Raw(seed, 7)),
       word_count |-> word_count,
       lengths    |-> [i \in 1..MaxParagraphs(word_count) |->
                         randint(PARA_MIN, PARA_MAX, Raw(seed, 9) + i)],
       words      |-> [i \in 1..word_count |->
                         randint(1, Len(WORDS), 7 * seed + Raw(i, 10))],
       number     |-> randint(URL_ID_MIN, URL_ID_MAX, Raw(seed, 11)) ]

(***************************************************************************)
(* main.  Sizes in GB are held in bytes: current_gb and last_gb are        *)
(* bytes / 1024**3, and TARGET_SIZE_GB is held in tenths of a GB.          *)
(***************************************************************************)
GiB == 10 * TenthGiB

\* target_bytes = TARGET_SIZE_GB * (1024**3)
TargetBytes(target_size_tenths) == (target_size_tenths * GiB) \div 10

\* if response != 'y', with response = input(...).strip().lower()
DeclinedOnlyOnNo(answer) == lower(strip(answer)) = <<"n">>
Declined(answer) == lower(strip(answer)) # <<"y">>

\* while bytes_written < target_bytes
LoopGuardInGB(written, target) == written * GiB < target
LoopGuard(written, target) == written < target

\* bytes_written += row_bytes
AddBytesOverwrite(written, row_bytes) == row_bytes
AddBytes(written, row_bytes) == written + row_bytes

\* if current_gb - last_gb >= 0.1
ProgressDueWholeGB(current, last) == current - last >= GiB
ProgressDue(current, last) == 10 * (current - last) >= GiB

\* OUTPUT_FILE.stat().st_size
RECURSIVE FileSize(_)
FileSize(lines) == IF lines = << >> THEN 0 ELSE Len(Head(lines)) + FileSize(Tail(lines))

\* Lines 116-128: the row of an iteration whose random source is in state seed.
NewRow(seed) ==
  LET r == RandomDraws(seed)
      domain == r.domain
      date == generate_date(DEFAULT_START_YEAR, DEFAULT_END_YEAR, r.days)
      title_ == generate_title(r.pattern, r.topic, r.action, r.subject, r.modifier)
      text == generate_article(r.word_count, r.lengths, r.words)
  IN MakeRow(date, title_, text, MakeUrl(domain, r.number), domain)

\* NewRow, the line writer.writerow writes for it and its estimate_row_bytes,
\* tabulated over the states of the random source.
Rows == [seed \in 1..MaxSeed |-> NewRow(seed)]
RowLines == [seed \in 1..MaxSeed |-> RowLine(Rows[seed])]
RowBytes == [seed \in 1..MaxSeed |-> estimate_row_bytes(Rows[seed])]

\* The file that is at OUTPUT_FILE before the run, when there is one.
OldContent == << <<"d","a","t","e",",","t","i","t","l","e","\r","\n">>, <<"2","0","1","9","-","0","1","-","0","1",",","o","l","d","\r","\n">> >>

\* What the user may type at the prompt.
Responses == { <<"y">>, <<"Y">>, <<" ","y"," ">>, <<"y","e","s">>, <<"n">>, <<"N">>, << >> }

VARIABLES
  \* a call of generate_date
  dt_pc, dt_start, dt_end, dt_days, dt_out,
  \* a call of generate_article
  ar_pc, ar_word_count, ar_lengths, ar_words, ar_out,
  \* a run of main
  pc,              \* where main is
  file_exists,     \* OUTPUT_FILE.exists()
  disk,            \* the lines of OUTPUT_FILE
  typed,           \* what the user typed at the prompt
  response,        \* input(...).strip().lower()
  TARGET_SIZE_GB,  \* in tenths of a GB
  target_bytes, bytes_written, rows_written,
  last_gb,         \* in bytes
  pbar,            \* the increments passed to pbar.update, in bytes
  row,             \* the row of the last iteration
  stdout,          \* what print wrote
  actual_size      \* OUTPUT_FILE.stat().st_size of the summary

date_vars == << dt_pc, dt_start, dt_end, dt_days, dt_out >>
article_vars == << ar_pc, ar_word_count, ar_lengths, ar_words, ar_out >>
main_vars == << pc, file_exists, disk, typed, response, TARGET_SIZE_GB, target_bytes,
                bytes_written, rows_written, last_gb, pbar, row, stdout,
                actual_size >>
vars == << date_vars, article_vars, main_vars >>

DateIdle == /\ dt_pc = "idle" /\ dt_start = DEFAULT_START_YEAR
            /\ dt_end = DEFAULT_END_YEAR /\ dt_days = 0 /\ dt_out = << >>

ArticleIdle == /\ ar_pc = "idle" /\ ar_word_count = 0 /\ ar_lengths = << >>
               /\ ar_words = << >> /\ ar_out = << >>

MainIdle == /\ pc = "idle" /\ file_exists = FALSE /\ disk = << >>
            /\ typed = << >> /\ response = << >> /\ TARGET_SIZE_GB = 1 /\ target_bytes = 0
            /\ bytes_written = 0 /\ rows_written = 0 /\ last_gb = 0
            /\ pbar = << >> /\ row = << >> /\ stdout = << >> /\ actual_size = 0

(***************************************************************************)
(* A call of generate_date.                                                *)
(***************************************************************************)
\* generate_date(start_year, end_year) and the value random.randint draws.
DateInit ==
  /\ dt_pc = "call"
  /\ dt_start \in (DEFAULT_START_YEAR - YearSlack)..(DEFAULT_END_YEAR + YearSlack)
  /\ dt_end \in dt_start..(DEFAULT_END_YEAR + YearSlack)
  /\ dt_days \in 0..DeltaDays(dt_start, dt_end)
  /\ dt_out = << >>
  /\ ArticleIdle /\ MainIdle

DateReturn ==
  /\ dt_pc = "call"
  /\ dt_out' = generate_date(dt_start, dt_end, dt_days)
  /\ dt_pc' = "returned"
  /\ UNCHANGED << dt_start, dt_end, dt_days, article_vars, main_vars >>

SpecDate == DateInit /\ [][DateReturn]_vars

(***************************************************************************)
(* A call of generate_article.                                             *)
(***************************************************************************)
\* generate_article(word_count) and the values the random source draws: one
\* length per paragraph, and a stream of words long enough for any lengths.  A
\* one-word article draws its word from all of WORDS.
ArticleInit ==
  /\ ar_pc = "call"
  /\ ar_word_count \in 1..MaxWordCount
  /\ ar_lengths \in [1..MaxParagraphs(ar_word_count) -> PARA_MIN..PARA_MAX]
  /\ \E first \in (IF ar_word_count = 1 THEN 1..Len(WORDS) ELSE 1..MaxWords),
        rest \in [1..(ar_word_count + PARA_MAX - 2) -> 1..MaxWords] :
       ar_words = << first >> \o rest
  /\ ar_out = << >>
  /\ DateIdle /\ MainIdle

ArticleReturn ==
  /\ ar_pc = "call"
  /\ ar_out' = generate_article(ar_word_count, ar_lengths, ar_words)
  /\ ar_pc' = "returned"
  /\ UNCHANGED << ar_word_count, ar_lengths, ar_words, date_vars, main_vars >>

SpecArticle == ArticleInit /\ [][ArticleReturn]_vars

(***************************************************************************)
(* A run of main.                                                          *)
(***************************************************************************)
Init ==
  /\ pc = "start"
  /\ file_exists \in BOOLEAN
  /\ disk = IF file_exists THEN OldContent ELSE << >>
  /\ typed = << >>
  /\ response = << >>
  /\ TARGET_SIZE_GB \in 1..MaxTargetTenths
  /\ target_bytes = 0
  /\ bytes_written = 0
  /\ rows_written = 0
  /\ last_gb = 0
  /\ pbar = << >>
  /\ row = << >>
  /\ stdout = << >>
  /\ actual_size = 0
  /\ DateIdle /\ ArticleIdle

\* Lines 91-94: OUTPUT_DIR.mkdir, and the test OUTPUT_FILE.exists().
CheckExists ==
  /\ pc = "start"
  /\ IF file_exists
     THEN /\ stdout' = Append(stdout, "File exists")
          /\ pc' = "prompt"
     ELSE /\ pc' = "setup"
          /\ UNCHANGED stdout
  /\ UNCHANGED << file_exists, disk, typed, response, TARGET_SIZE_GB, target_bytes,
                  bytes_written, rows_written, last_gb, pbar, row, actual_size,
                  date_vars, article_vars >>

\* Lines 95-98: the answer to "Overwrite? [y/N]: ".
Prompt ==
  /\ pc = "prompt"
  /\ \E answer \in Responses :
       /\ typed' = answer
       /\ response' = lower(strip(answer))
       /\ IF Declined(answer)
          THEN /\ stdout' = Append(stdout, "Aborted.")
               /\ pc' = "aborted"
          ELSE /\ pc' = "setup"
               /\ UNCHANGED stdout
  /\ UNCHANGED << file_exists, disk, TARGET_SIZE_GB, target_bytes, bytes_written,
                  rows_written, last_gb, pbar, row, actual_size,
                  date_vars, article_vars >>

\* Lines 100-113: the counters, open(OUTPUT_FILE, 'w'), writeheader, the bar.
OpenOutput ==
  /\ pc = "setup"
  /\ target_bytes' = TargetBytes(TARGET_SIZE_GB)
  /\ bytes_written' = 0
  /\ rows_written' = 0
  /\ stdout' = stdout \o << "Generating", "Output" >>
  /\ file_exists' = TRUE
  /\ disk' = << HeaderLine >>
  /\ pbar' = << >>
  /\ last_gb' = 0
  /\ pc' = "loop"
  /\ UNCHANGED << typed, response, TARGET_SIZE_GB, row, actual_size, date_vars, article_vars >>

\* Lines 115-139: one iteration of the while loop.
WriteRecord ==
  /\ pc = "loop"
  /\ LoopGuard(bytes_written, target_bytes)
  /\ rows_written < MaxRows
  /\ \E seed \in 1..MaxSeed :
       LET row_bytes == RowBytes[seed]
           current_gb == AddBytes(bytes_written, row_bytes)
       IN /\ row' = Rows[seed]
          /\ disk' = Append(disk, RowLines[seed])
          /\ bytes_written' = current_gb
          /\ rows_written' = rows_written + 1
          /\ IF ProgressDue(current_gb, last_gb)
             THEN /\ pbar' = Append(pbar, current_gb - last_gb)
                  /\ last_gb' = current_gb
             ELSE UNCHANGED << pbar, last_gb >>
  /\ UNCHANGED << pc, file_exists, typed, response, TARGET_SIZE_GB, target_bytes, stdout,
                  actual_size, date_vars, article_vars >>

\* Lines 115 and 141: the loop condition fails; pbar.close() and the file closes.
ExitLoop ==
  /\ pc = "loop"
  /\ ~LoopGuard(bytes_written, target_bytes)
  /\ pc' = "summary"
  /\ UNCHANGED << file_exists, disk, typed, response, TARGET_SIZE_GB, target_bytes,
                  bytes_written, rows_written, last_gb, pbar, row, stdout,
                  actual_size, date_vars, article_vars >>

\* Lines 143-152: the measured size and the summary.
Summary ==
  /\ pc = "summary"
  /\ actual_size' = FileSize(disk)
  /\ stdout' = stdout \o << "Generation complete!", "Rows", "Size", "Location", "NOTE" >>
  /\ pc' = "done"
  /\ UNCHANGED << file_exists, disk, typed, response, TARGET_SIZE_GB, target_bytes,
                  bytes_written, rows_written, last_gb, pbar, row,
                  date_vars, article_vars >>

Next == CheckExists \/ Prompt \/ OpenOutput \/ WriteRecord \/ ExitLoop \/ Summary

Spec == Init /\ [][Next]_vars

\* main is sequential: an iteration that can run runs, and the loop exits
\* once its condition fails.
LiveSpec == Spec /\ WF_vars(WriteRecord) /\ WF_vars(ExitLoop)

(***************************************************************************)
(* Readers of what the program produced: they take the output apart again, *)
(* as a consumer of the file would.                                        *)
(***************************************************************************)
SetMin(S) == CHOOSE x \in S : \A y \in S : x <= y

\* s.split(sep)
RECURSIVE Split(_, _)
Split(s, sep) ==
  LET hits == {i \in 1..(Len(s) - Len(sep) + 1) : SubSeq(s, i, i + Len(sep) - 1) = sep}
  IN IF hits = {} THEN << s >>
     ELSE << SubSeq(s, 1, SetMin(hits) - 1) >>
            \o Split(SubSeq(s, SetMin(hits) + Len(sep), Len(s)), sep)

HasPrefix(s, prefix) == Len(s) >= Len(prefix) /\ SubSeq(s, 1, Len(prefix)) = prefix
HasSuffix(s, suffix) ==
  Len(s) >= Len(suffix) /\ SubSeq(s, Len(s) - Len(suffix) + 1, Len(s)) = suffix

IsDigits(s) == s # << >> /\ \A i \in 1..Len(s) : IndexIn(s[i], DigitChars) > 0

\* int(s) of a string of digits
RECURSIVE ParseInt(_)
ParseInt(s) == IF s = << >> THEN 0
               ELSE 10 * ParseInt(SubSeq(s, 1, Len(s) - 1))
                      + (IndexIn(s[Len(s)], DigitChars) - 1)

\* One line of a CSV file read back: its fields.  A comma separates fields
\* when an even number of quote characters precedes it; a field in quotes is
\* taken without them, its doubled quotes single.
Unquote(field) ==
  IF Len(field) >= 2 /\ field[1] = "\"" /\ field[Len(field)] = "\""
  THEN LET inner == SubSeq(field, 2, Len(field) - 1)
           quotes == {k \in 1..Len(inner) : inner[k] = "\""}
           Kept(k) == k \notin quotes \/ Cardinality({q \in quotes : q <= k}) % 2 = 0
           kept == SelectSeq([k \in 1..Len(inner) |-> k], Kept)
       IN [k \in 1..Len(kept) |-> inner[kept[k]]]
  ELSE field

RECURSIVE FieldsFrom(_, _, _)
FieldsFrom(s, start, separators) ==
  LET ahead == {x \in separators : x >= start}
  IN IF ahead = {} THEN << Unquote(SubSeq(s, start, Len(s))) >>
     ELSE << Unquote(SubSeq(s, start, SetMin(ahead) - 1)) >>
            \o FieldsFrom(s, SetMin(ahead) + 1, separators)

ParseCsvLine(line) ==
  IF HasSuffix(line, <<"\r","\n">>)
  THEN LET s == SubSeq(line, 1, Len(line) - 2)
           quotes == {k \in 1..Len(s) : s[k] = "\""}
           separators == {k \in 1..Len(s) :
                            /\ s[k] = ","
                            /\ Cardinality({q \in quotes : q < k}) % 2 = 0}
       IN FieldsFrom(s, 1, separators)
  ELSE << >>

\* The column of the file that the header names `name`.
Column(header, name) == IndexIn(name, ParseCsvLine(header))

RECURSIVE SumSeq(_)
SumSeq(q) == IF q = << >> THEN 0 ELSE Head(q) + SumSeq(Tail(q))

\* The words of a paragraph: its text without the final period, split at blanks.
WordsOf(paragraph) == Split(SubSeq(paragraph, 1, Len(paragraph) - 1), <<" ">>)
IsWord(w) == w # << >> /\ \A i \in 1..Len(w) : IsLetter(w[i])
ParagraphsOf(text) == Split(text, <<"\n","\n">>)

Opened == pc \in {"loop", "summary", "done"}
Stopped == pc \in {"summary", "done"}

\* The largest estimate_row_bytes of a row the loop can write.
MaxRowEstimate ==
  LET e(seed) == RowBytes[seed]
  IN e(CHOOSE s \in 1..MaxSeed : \A t \in 1..MaxSeed : e(t) <= e(s))

(***************************************************************************)
(* C1: the loop of main terminates: every iteration adds a positive        *)
(* estimate to bytes_written, and from the loop the run always gets to the *)
(* summary, whatever the target and the random draws.                      *)
(***************************************************************************)
C1_LoopTerminates ==
  /\ [][rows_written' = rows_written + 1 => bytes_written' > bytes_written]_vars
  /\ (pc = "loop") ~> (pc = "summary")

C1_Witness == pc = "summary" /\ rows_written >= 3 /\ TARGET_SIZE_GB = MaxTargetTenths

(***************************************************************************)
(* C2: when the loop has stopped, target_bytes <= bytes_written <          *)
(* target_bytes + M with M the largest estimate of one row, at least one   *)
(* row was written, and bytes_written was below the target before the last *)
(* row.                                                                    *)
(***************************************************************************)
C2_StopsWithinOneRecord ==
  Stopped =>
    /\ target_bytes > 0
    /\ target_bytes <= bytes_written
    /\ bytes_written < target_bytes + MaxRowEstimate
    /\ rows_written >= 1
    /\ Len(disk) >= 2
    /\ bytes_written - (SumSeq([i \in 1..5 |-> Len(ParseCsvLine(disk[Len(disk)])[i])]) + 5)
         < target_bytes

C2_Witness == pc = "done" /\ rows_written >= 2 /\ bytes_written > target_bytes

(***************************************************************************)
(* C3: generate_article(W), W >= 1, returns paragraphs of at least one     *)
(* word each whose word counts add up to exactly W.                        *)
(***************************************************************************)
C3_ArticleWordCount ==
  ar_pc = "returned" =>
    LET paras == ParagraphsOf(ar_out)
    IN /\ \A i \in 1..Len(paras) :
            /\ HasSuffix(paras[i], <<".">>)
            /\ \A k \in 1..Len(WordsOf(paras[i])) : IsWord(WordsOf(paras[i])[k])
       /\ SumSeq([i \in 1..Len(paras) |-> Len(WordsOf(paras[i]))]) = ar_word_count

\* A last paragraph cut down to the words that remain.
C3_Witness ==
  /\ ar_pc = "returned"
  /\ ar_word_count = MaxWordCount
  /\ LET paras == ParagraphsOf(ar_out)
     IN /\ Len(paras) >= 2
        /\ Len(WordsOf(paras[Len(paras)])) < ar_lengths[Len(paras)]

\* url is https://{domain}/article/{n} with n a number of six digits.
UrlOk(url, domain) ==
  /\ HasPrefix(url, <<"h","t","t","p","s",":","/","/">>)
  /\ LET rest == Split(SubSeq(url, 9, Len(url)), <<"/">>)
     IN /\ Len(rest) = 3
        /\ rest[1] = domain
        /\ rest[2] = <<"a","r","t","i","c","l","e">>
        /\ IsDigits(rest[3])
        /\ Len(rest[3]) = 6
        /\ ParseInt(rest[3]) \in 100000..999999

(***************************************************************************)
(* C4: every row in the file has a url https://{domain}/article/{n} whose  *)
(* host is the row's own domain field, with n in 100000..999999.           *)
(***************************************************************************)
C4_UrlMatchesDomain ==
  Opened =>
    \A i \in 2..Len(disk) :
      LET fields == ParseCsvLine(disk[i])
      IN /\ Len(fields) = 5
         /\ IndexIn(fields[Column(disk[1], <<"d","o","m","a","i","n">>)], DOMAINS) > 0
         /\ UrlOk(fields[Column(disk[1], <<"u","r","l">>)], fields[Column(disk[1], <<"d","o","m","a","i","n">>)])

C4_Witness ==
  /\ pc = "done"
  /\ Len(disk) >= 3
  /\ ParseCsvLine(disk[2])[5] # ParseCsvLine(disk[3])[5]

(***************************************************************************)
(* C5: bytes_written never exceeds the number of bytes in the file (the    *)
(* header and every row with its delimiters, quotes and line terminator),  *)
(* so the measured size of a finished file is at least the target.         *)
(***************************************************************************)
C5_EstimateNeverExceedsFile ==
  /\ Opened => bytes_written <= SumSeq([i \in 1..Len(disk) |-> Len(disk[i])])
  /\ pc = "done" => actual_size >= bytes_written /\ actual_size >= target_bytes

C5_Witness == pc = "done" /\ rows_written >= 2 /\ bytes_written < actual_size

\* What holds of the file while it is open, and of two successive states of it.
C6_HeaderAndRows ==
  Opened =>
    /\ Len(disk) = rows_written + 1
    /\ disk[1] = <<"d","a","t","e",",","t","i","t","l","e",",","t","e","x","t",",","u","r","l",",","d","o","m","a","i","n","\r","\n">>
    /\ \A i \in 2..Len(disk) : disk[i] # disk[1] /\ Len(ParseCsvLine(disk[i])) = 5
    /\ rows_written > 0 =>
         ParseCsvLine(disk[Len(disk)])
           = << row[<<"d","a","t","e">>], row[<<"t","i","t","l","e">>], row[<<"t","e","x","t">>], row[<<"u","r","l">>], row[<<"d","o","m","a","i","n">>] >>

C6_AppendOnly ==
  (Opened /\ Opened') =>
    \/ disk' = disk
    \/ Len(disk') = Len(disk) + 1 /\ SubSeq(disk', 1, Len(disk)) = disk

(***************************************************************************)
(* C6: the header date,title,text,url,domain is the first line of the file *)
(* and occurs once; every other line is a data row holding the fields of   *)
(* the row written, in that order; the file holds rows_written data rows;  *)
(* lines are only ever appended.                                           *)
(***************************************************************************)
C6_HeaderOnceRowsAppended == [](C6_HeaderAndRows) /\ [][C6_AppendOnly]_vars

C6_Witness == pc = "done" /\ Len(disk) >= 4

\* The file existed and the prompt was answered.
Prompted == stdout # << >> /\ stdout[1] = "File exists" /\ pc # "prompt"

(***************************************************************************)
(* C7: when the file exists and the answer to the prompt is not an         *)
(* affirmative one, the run aborts: the file is as it was, nothing is      *)
(* written or counted, the loop is not entered, and "Aborted." is printed. *)
(***************************************************************************)
C7_DeclineAborts ==
  (Prompted /\ typed \notin { <<"y">>, <<"Y">>, <<" ","y"," ">> }) =>
    /\ pc = "aborted"
    /\ disk = OldContent
    /\ bytes_written = 0
    /\ rows_written = 0
    /\ pbar = << >>
    /\ stdout = << "File exists", "Aborted." >>

C7_Witness == pc = "aborted" /\ typed = <<"y","e","s">> /\ disk = OldContent

(***************************************************************************)
(* C8: generate_date(start_year, end_year) returns a calendar date         *)
(* YYYY-MM-DD between start_year-01-01 and end_year-12-31, both included.  *)
(***************************************************************************)
C8_DateInRange ==
  dt_pc = "returned" =>
    LET parts == Split(dt_out, <<"-">>)
    IN /\ Len(dt_out) = 10
       /\ Len(parts) = 3
       /\ Len(parts[1]) = 4 /\ Len(parts[2]) = 2 /\ Len(parts[3]) = 2
       /\ \A i \in 1..3 : IsDigits(parts[i])
       /\ LET y == ParseInt(parts[1])
              m == ParseInt(parts[2])
              d == ParseInt(parts[3])
          IN /\ dt_start <= y /\ y <= dt_end
             /\ m \in 1..12
             /\ d >= 1
             /\ d <= (IF m = 2
                      THEN (IF y % 4 = 0 /\ (y % 100 # 0 \/ y % 400 = 0) THEN 29 ELSE 28)
                      ELSE IF m \in {4, 6, 9, 11} THEN 30 ELSE 31)

\* The last day of the default range, across the leap years 2020 and 2024.
C8_Witness ==
  /\ dt_pc = "returned"
  /\ dt_start = 2020 /\ dt_end = 2024
  /\ dt_days = 1826
  /\ dt_out = <<"2","0","2","4","-","1","2","-","3","1">>

(***************************************************************************)
(* C9: generate_article(1) returns one paragraph: one word of WORDS with   *)
(* its first letter capitalized, then a period, and no paragraph           *)
(* separator.                                                              *)
(***************************************************************************)
C9_OneWordArticle ==
  (ar_pc = "returned" /\ ar_word_count = 1) =>
    /\ Len(ar_out) >= 2
    /\ ar_out[Len(ar_out)] = "."
    /\ IndexIn(ar_out[1], UpperLetters) > 0
    /\ \A i \in 2..(Len(ar_out) - 1) : IndexIn(ar_out[i], LowerLetters) > 0
    /\ \E w \in 1..Len(WORDS) :
         /\ Len(WORDS[w]) = Len(ar_out) - 1
         /\ \A i \in 1..Len(WORDS[w]) :
              ar_out[i] \in {WORDS[w][i], UpperLetters[IndexIn(WORDS[w][i], LowerLetters)]}
    /\ \A i \in 1..Len(ar_out) : ar_out[i] \notin {" ", "\n"}

C9_Witness == ar_pc = "returned" /\ ar_word_count = 1 /\ ar_out = <<"A","n","d",".">>

\* What holds of the progress bar after every iteration, and of one iteration.
C10_Reported ==
  Opened =>
    /\ \A i \in 1..Len(pbar) : 10 * pbar[i] >= GiB
    /\ SumSeq(pbar) <= bytes_written
    /\ SumSeq(pbar) = last_gb
    /\ bytes_written - SumSeq(pbar) >= 0
    /\ 10 * (bytes_written - SumSeq(pbar)) < GiB

C10_Iteration ==
  (rows_written' = rows_written + 1) =>
    /\ (pbar' # pbar) <=> (10 * (bytes_written' - SumSeq(pbar)) >= GiB)
    /\ pbar' # pbar => pbar' = Append(pbar, bytes_written' - SumSeq(pbar))

(***************************************************************************)
(* C10: an iteration reports progress exactly when bytes_written is at     *)
(* least 0.1 GB beyond the amount last reported; every increment reported  *)
(* is at least 0.1 GB; what was reported never exceeds bytes_written; and  *)
(* after every iteration the amount not yet reported is >= 0 and < 0.1 GB. *)
(***************************************************************************)
C10_ProgressEveryTenth == [](C10_Reported) /\ [][C10_Iteration]_vars

C10_Witness == pc = "done" /\ Len(pbar) >= 1 /\ rows_written > Len(pbar)

=============================================================================
